---- MODULE Spec2Model ----
(***************************************************************************)
(* Whsper Stellar: the read-only query contract over persisted claims     *)
(* (contracts/whsper_stellar/src/lib.rs).                                  *)
(*                                                                         *)
(* The contract's four entry points are modelled over the host's           *)
(* persistent storage.  The two list operations are modelled loop          *)
(* iteration by loop iteration (the frame holds the locals of the running  *)
(* invocation); the two single lookups are one step each.  The writer of   *)
(* the storage is not part of the contract: it acts between invocations.   *)
(***************************************************************************)
EXTENDS Integers, Sequences, FiniteSets

VARIABLES
    storage,    \* env.storage().persistent(): one map per key tag
    pc,         \* "idle" | "loop" | "done": position of the running invocation
    op,         \* name of the invoked entry point ("none" when idle)
    args,       \* arguments of the invocation
    frame,      \* locals of a list operation (limit, include_all, claim_ids, ...)
    ret         \* value returned by the invocation (meaningful when pc = "done")

vars == <<storage, pc, op, args, frame, ret>>

----------------------------------------------------------------------------
(* Bounds of the model and constants of the program *)

\* Longest index sequence enumerated exhaustively.
MaxLen == 3

MAX_PAGE_SIZE == 100

\* A value far above every threshold in the program, standing for the top of
\* the u32 and u64 ranges (the largest integer the model checker represents).
Huge == 2147483646 + 1

Ids == {1, 2}
Addrs == {"A", "B"}

\* Claim ids a caller asks for: the stored ones, one never stored, a huge one.
QueryIds == Ids \cup {3, Huge}

\* Raw limits a caller passes: the floor, small pages, the ceiling's neighbours,
\* a huge one.
Limits == {0, 1, 2, MAX_PAGE_SIZE + 1, Huge}

----------------------------------------------------------------------------
(* Option<T>: None is the empty sequence, Some(v) the one-element sequence *)

None == <<>>
Some(v) == <<v>>
IsSome(o) == o # <<>>
Unwrap(o) == o[1]
unwrap_or(o, d) == IF IsSome(o) THEN Unwrap(o) ELSE d

Flags == {None, Some(FALSE), Some(TRUE)}

\* u32::min / u32::max
u32_min(a, b) == IF a <= b THEN a ELSE b
u32_max(a, b) == IF a >= b THEN a ELSE b

----------------------------------------------------------------------------
(* Data model *)

ClaimStatus == {"Pending", "Claimed", "Cancelled"}

\* The record the writer stores for claim `id` (created by B for recipient A).
PendingClaim(id, status) ==
    [id |-> id, creator |-> "B", recipient |-> "A", amount |-> 10 * id - 15,
     token |-> "T", status |-> status, created_at |-> id,
     claim_window_start |-> id + 1, claim_window_end |-> id + 2]

ClaimWindowConfig(w, d) == [window_duration_secs |-> w, min_claim_delay_secs |-> d]

\* ClaimWindowConfig::default()
ClaimWindowConfigDefault == ClaimWindowConfig(0, 0)

Found(claim) == [tag |-> "Found", claim |-> claim]
NotFound == [tag |-> "NotFound"]

----------------------------------------------------------------------------
(* Storage: key (tag, discriminator) -> value *)

CLAIM_KEY == "claim"
CLAIMS_BY_RECIPIENT == "claims_rc"
CLAIMS_BY_CREATOR == "claims_cr"
CLAIM_WINDOW_CONFIG == "claim_cfg"

\* env.storage().persistent().get(&(tag, k)): None when nothing is stored there.
StorageGet(st, tag, k) ==
    IF k \in DOMAIN st[tag] THEN st[tag][k] ELSE None

\* env.storage().persistent().get(&CLAIM_WINDOW_CONFIG)
StorageGetConfig(st) == st[CLAIM_WINDOW_CONFIG]

----------------------------------------------------------------------------
(* The entry points *)

\* Variant: only a claim that is still Pending is reported as found.
get_pending_claim_OnlyPending(st, claim_id) ==
    LET stored == StorageGet(st, CLAIM_KEY, claim_id)
    IN  IF IsSome(stored) /\ Unwrap(stored).status = "Pending"
        THEN Found(Unwrap(stored)) ELSE NotFound

\* get_pending_claim: Found(claim) when a record is stored under
\* (CLAIM_KEY, claim_id), NotFound otherwise.
get_pending_claim(st, claim_id) ==
    LET stored == StorageGet(st, CLAIM_KEY, claim_id)
    IN  IF IsSome(stored) THEN Found(Unwrap(stored)) ELSE NotFound

\* Variant: the ceiling without the floor.
EffectiveLimit_NoFloor(limit) == u32_min(limit, MAX_PAGE_SIZE)

\* limit.min(MAX_PAGE_SIZE).max(1)
EffectiveLimit(limit) == u32_max(u32_min(limit, MAX_PAGE_SIZE), 1)

\* Variant: only Cancelled claims are filtered out.
PassesFilter_KeepsClaimed(include_all, claim) ==
    include_all \/ claim.status # "Cancelled"

\* Variant: the flag is not consulted.
PassesFilter_IgnoresFlag(include_all, claim) == claim.status = "Pending"

\* The test guarding result.push_back(claim).
PassesFilter(include_all, claim) == include_all \/ claim.status = "Pending"

\* get_claims_by_recipient, up to the loop: the limit is clamped, the flag
\* defaulted, the recipient's id sequence read (empty when absent), the result
\* empty; `it` is the position of the iterator claim_ids.iter().
RecipientEnter(st, recipient, limit, include_claimed_cancelled) ==
    [limit       |-> EffectiveLimit(limit),
     include_all |-> unwrap_or(include_claimed_cancelled, FALSE),
     claim_ids   |-> unwrap_or(StorageGet(st, CLAIMS_BY_RECIPIENT, recipient), <<>>),
     it          |-> 0,
     result      |-> <<>>,
     lookups     |-> 0,
     exited      |-> FALSE]

\* Variant: the claim is pushed at the front of the result.
RecipientIterate_PushFront(st, f) ==
    IF f.it >= Len(f.claim_ids) THEN [f EXCEPT !.exited = TRUE]
    ELSE LET id == f.claim_ids[f.it + 1]
             g  == [f EXCEPT !.it = f.it + 1]
         IN  IF Len(f.result) >= f.limit THEN [g EXCEPT !.exited = TRUE]
             ELSE LET claim_result == get_pending_claim(st, id)
                      h == [g EXCEPT !.lookups = g.lookups + 1]
                  IN  IF claim_result.tag = "Found"
                         /\ PassesFilter(f.include_all, claim_result.claim)
                      THEN [h EXCEPT !.result = <<claim_result.claim>> \o h.result]
                      ELSE h

\* Variant: every entry is resolved, and claims beyond the limit are dropped.
RecipientIterate_ScansAll(st, f) ==
    IF f.it >= Len(f.claim_ids) THEN [f EXCEPT !.exited = TRUE]
    ELSE LET id == f.claim_ids[f.it + 1]
             g  == [f EXCEPT !.it = f.it + 1]
             claim_result == get_pending_claim(st, id)
             h == [g EXCEPT !.lookups = g.lookups + 1]
         IN  IF /\ claim_result.tag = "Found"
                /\ PassesFilter(f.include_all, claim_result.claim)
                /\ Len(f.result) < f.limit
             THEN [h EXCEPT !.result = Append(h.result, claim_result.claim)]
             ELSE h

\* One iteration of `for id in claim_ids.iter()`: the iterator yields the next
\* id or ends the loop; the loop breaks when the result is full; otherwise the
\* id is resolved and the claim pushed when found and passing the filter.
\* `lookups` counts the calls of get_pending_claim.
RecipientIterate(st, f) ==
    IF f.it >= Len(f.claim_ids) THEN [f EXCEPT !.exited = TRUE]
    ELSE LET id == f.claim_ids[f.it + 1]
             g  == [f EXCEPT !.it = f.it + 1]
         IN  IF Len(f.result) >= f.limit THEN [g EXCEPT !.exited = TRUE]
             ELSE LET claim_result == get_pending_claim(st, id)
                      h == [g EXCEPT !.lookups = g.lookups + 1]
                  IN  IF claim_result.tag = "Found"
                         /\ PassesFilter(f.include_all, claim_result.claim)
                      THEN [h EXCEPT !.result = Append(h.result, claim_result.claim)]
                      ELSE h

\* Variant: the creator's call reads the by-recipient index.
CreatorEnter_ReadsRecipientIndex(st, creator, limit, include_claimed_cancelled) ==
    LET claim_ids == unwrap_or(StorageGet(st, CLAIMS_BY_RECIPIENT, creator), <<>>)
    IN  [limit       |-> EffectiveLimit(limit),
         include_all |-> unwrap_or(include_claimed_cancelled, FALSE),
         claim_ids   |-> claim_ids,
         len         |-> Len(claim_ids),
         i           |-> 0,
         result      |-> <<>>,
         lookups     |-> 0,
         exited      |-> FALSE]

\* get_claims_by_creator, up to the loop: as for the recipient, over the
\* creator's index; the loop runs i over 0..len with len = claim_ids.len().
CreatorEnter(st, creator, limit, include_claimed_cancelled) ==
    LET claim_ids == unwrap_or(StorageGet(st, CLAIMS_BY_CREATOR, creator), <<>>)
    IN  [limit       |-> EffectiveLimit(limit),
         include_all |-> unwrap_or(include_claimed_cancelled, FALSE),
         claim_ids   |-> claim_ids,
         len         |-> Len(claim_ids),
         i           |-> 0,
         result      |-> <<>>,
         lookups     |-> 0,
         exited      |-> FALSE]

\* Vec::get(i): Some(element) for a position inside the vector (0-based).
VecGet(v, i) == IF i < Len(v) THEN Some(v[i + 1]) ELSE None

\* Variant: the scan ends at the first id that does not resolve.
CreatorIterate_StopsAtMissing(st, f) ==
    IF f.i >= f.len THEN [f EXCEPT !.exited = TRUE]
    ELSE LET i == f.i
             g == [f EXCEPT !.i = f.i + 1]
         IN  IF Len(f.result) >= f.limit THEN [g EXCEPT !.exited = TRUE]
             ELSE LET got == VecGet(f.claim_ids, i)
                  IN  IF IsSome(got)
                      THEN LET claim_result == get_pending_claim(st, Unwrap(got))
                               h == [g EXCEPT !.lookups = g.lookups + 1]
                           IN  IF claim_result.tag = "Found"
                               THEN IF PassesFilter(f.include_all, claim_result.claim)
                                    THEN [h EXCEPT !.result = Append(h.result, claim_result.claim)]
                                    ELSE h
                               ELSE [h EXCEPT !.exited = TRUE]
                      ELSE g

\* One iteration of `for i in 0..len`: the range yields the next i or ends the
\* loop; the loop breaks when the result is full; otherwise claim_ids.get(i)
\* is resolved and the claim pushed when found and passing the filter.
CreatorIterate(st, f) ==
    IF f.i >= f.len THEN [f EXCEPT !.exited = TRUE]
    ELSE LET i == f.i
             g == [f EXCEPT !.i = f.i + 1]
         IN  IF Len(f.result) >= f.limit THEN [g EXCEPT !.exited = TRUE]
             ELSE LET got == VecGet(f.claim_ids, i)
                  IN  IF IsSome(got)
                      THEN LET claim_result == get_pending_claim(st, Unwrap(got))
                               h == [g EXCEPT !.lookups = g.lookups + 1]
                           IN  IF claim_result.tag = "Found"
                                  /\ PassesFilter(f.include_all, claim_result.claim)
                               THEN [h EXCEPT !.result = Append(h.result, claim_result.claim)]
                               ELSE h
                      ELSE g

\* The whole loop of get_claims_by_recipient, from frame f to the frame at exit.
RECURSIVE RecipientLoop(_, _)
RecipientLoop(st, f) ==
    IF f.exited THEN f ELSE RecipientLoop(st, RecipientIterate(st, f))

\* The whole loop of get_claims_by_creator, from frame f to the frame at exit.
RECURSIVE CreatorLoop(_, _)
CreatorLoop(st, f) ==
    IF f.exited THEN f ELSE CreatorLoop(st, CreatorIterate(st, f))

\* get_claims_by_recipient as a function of the storage and the arguments.
get_claims_by_recipient(st, recipient, limit, include_claimed_cancelled) ==
    RecipientLoop(st, RecipientEnter(st, recipient, limit, include_claimed_cancelled)).result

\* get_claims_by_creator as a function of the storage and the arguments.
get_claims_by_creator(st, creator, limit, include_claimed_cancelled) ==
    CreatorLoop(st, CreatorEnter(st, creator, limit, include_claimed_cancelled)).result

\* Variant: a stored configuration whose delay exceeds its duration is
\* replaced by the default.
get_claim_window_config_Validates(st) ==
    LET stored == StorageGetConfig(st)
    IN  IF IsSome(stored)
           /\ Unwrap(stored).min_claim_delay_secs <= Unwrap(stored).window_duration_secs
        THEN Unwrap(stored) ELSE ClaimWindowConfigDefault

\* get_claim_window_config: the stored configuration, or the default.
get_claim_window_config(st) ==
    unwrap_or(StorageGetConfig(st), ClaimWindowConfigDefault)

----------------------------------------------------------------------------
(* The stores the model starts from *)

\* Every id sequence of length at most MaxLen.
ShortSeqs == UNION {[1..n -> Ids] : n \in 0..MaxLen}

\* Sequences longer than a full page: MAX_PAGE_SIZE + 1 times id 1, and the
\* same with id 2 inserted at the second position.
LongLen == MAX_PAGE_SIZE + 1
LongSeqs == {[p \in 1..LongLen |-> 1],
             [p \in 1..LongLen + 1 |-> IF p = 2 THEN 2 ELSE 1]}

\* What the keys outside the examined pair hold: nothing, or a fixed sequence.
OtherIndex == {None, Some(<<2, 1>>)}

\* The two indices.  The by-recipient index of A takes every value; the
\* by-creator index of B holds the same sequence, or one of OtherIndex; the
\* remaining two keys hold one of OtherIndex.
InitIndices ==
    {[rc |-> [a \in Addrs |-> IF a = "A" THEN s ELSE d],
      cr |-> [a \in Addrs |-> IF a = "B" THEN t ELSE d]] :
        s \in {None} \cup {Some(q) : q \in ShortSeqs}, t \in OtherIndex \cup {None, Some(<<>>)}, d \in OtherIndex}
    \cup
    {[rc |-> [a \in Addrs |-> IF a = "A" THEN s ELSE d],
      cr |-> [a \in Addrs |-> IF a = "B" THEN s ELSE d]] :
        s \in {Some(q) : q \in ShortSeqs}, d \in OtherIndex}
    \cup
    {[rc |-> [a \in Addrs |-> IF a = "A" THEN Some(q) ELSE None],
      cr |-> [a \in Addrs |-> IF a = "B" THEN t ELSE None]] :
        q \in LongSeqs, t \in {None} \cup {Some(r) : r \in LongSeqs}}

\* Claim records as first written: each id absent, or stored with status Pending.
InitClaims == [Ids -> {None} \cup {Some(PendingClaim(id, "Pending")) : id \in Ids}]

\* Configurations the writer stores; nothing validates them.
Configs == {ClaimWindowConfig(Huge, 7), ClaimWindowConfig(0, 5)}

NoArgs == [claim_id |-> 0, owner |-> "", limit |-> 0, flag |-> None]
NoFrame == [exited |-> TRUE]

Init ==
    /\ \E ix \in InitIndices, cl \in InitClaims :
          /\ \A id \in Ids : IsSome(cl[id]) => Unwrap(cl[id]).id = id
          /\ storage = [claim |-> cl, claims_rc |-> ix.rc, claims_cr |-> ix.cr,
                        claim_cfg |-> None]
    /\ pc = "idle"
    /\ op = "none"
    /\ args = NoArgs
    /\ frame = NoFrame
    /\ ret = None

----------------------------------------------------------------------------
(* Invocations *)

\* An invocation of get_pending_claim.
Call_get_pending_claim ==
    /\ pc = "idle"
    /\ \E claim_id \in QueryIds :
          /\ args' = [NoArgs EXCEPT !.claim_id = claim_id]
          /\ ret' = get_pending_claim(storage, claim_id)
    /\ op' = "get_pending_claim"
    /\ pc' = "done"
    /\ UNCHANGED <<storage, frame>>

\* get_claims_by_recipient is invoked and reaches its loop.
Enter_get_claims_by_recipient ==
    /\ pc = "idle"
    /\ \E recipient \in Addrs, limit \in Limits, flag \in Flags :
          /\ args' = [NoArgs EXCEPT !.owner = recipient, !.limit = limit, !.flag = flag]
          /\ frame' = RecipientEnter(storage, recipient, limit, flag)
    /\ op' = "get_claims_by_recipient"
    /\ pc' = "loop"
    /\ UNCHANGED <<storage, ret>>

\* One iteration of the loop of get_claims_by_recipient; at the loop's exit
\* the result is returned.
Iterate_get_claims_by_recipient ==
    /\ pc = "loop"
    /\ op = "get_claims_by_recipient"
    /\ frame' = RecipientIterate(storage, frame)
    /\ IF frame'.exited
       THEN pc' = "done" /\ ret' = frame'.result
       ELSE UNCHANGED <<pc, ret>>
    /\ UNCHANGED <<storage, op, args>>

\* get_claims_by_creator is invoked and reaches its loop.
Enter_get_claims_by_creator ==
    /\ pc = "idle"
    /\ \E creator \in Addrs, limit \in Limits, flag \in Flags :
          /\ args' = [NoArgs EXCEPT !.owner = creator, !.limit = limit, !.flag = flag]
          /\ frame' = CreatorEnter(storage, creator, limit, flag)
    /\ op' = "get_claims_by_creator"
    /\ pc' = "loop"
    /\ UNCHANGED <<storage, ret>>

\* One iteration of the loop of get_claims_by_creator; at the loop's exit the
\* result is returned.
Iterate_get_claims_by_creator ==
    /\ pc = "loop"
    /\ op = "get_claims_by_creator"
    /\ frame' = CreatorIterate(storage, frame)
    /\ IF frame'.exited
       THEN pc' = "done" /\ ret' = frame'.result
       ELSE UNCHANGED <<pc, ret>>
    /\ UNCHANGED <<storage, op, args>>

\* Variant: the default configuration is stored when none is.
Call_get_claim_window_config_LazyInit ==
    /\ pc = "idle"
    /\ args' = NoArgs
    /\ ret' = get_claim_window_config(storage)
    /\ op' = "get_claim_window_config"
    /\ pc' = "done"
    /\ storage' = [storage EXCEPT !.claim_cfg = Some(get_claim_window_config(storage))]
    /\ UNCHANGED frame

\* An invocation of get_claim_window_config.
Call_get_claim_window_config ==
    /\ pc = "idle"
    /\ args' = NoArgs
    /\ ret' = get_claim_window_config(storage)
    /\ op' = "get_claim_window_config"
    /\ pc' = "done"
    /\ UNCHANGED <<storage, frame>>

\* The host hands the returned value to the caller; the invocation is over.
Return ==
    /\ pc = "done"
    /\ pc' = "idle"
    /\ op' = "none"
    /\ args' = NoArgs
    /\ frame' = NoFrame
    /\ ret' = None
    /\ UNCHANGED storage

----------------------------------------------------------------------------
(* The external writer, between invocations *)

\* A pending claim is claimed or cancelled.
WriterSetStatus ==
    /\ pc = "idle"
    /\ \E id \in Ids, status \in {"Claimed", "Cancelled"} :
          /\ IsSome(storage.claim[id])
          /\ Unwrap(storage.claim[id]).status = "Pending"
          /\ storage' = [storage EXCEPT
                 !.claim[id] = Some([Unwrap(storage.claim[id]) EXCEPT !.status = status])]
    /\ UNCHANGED <<pc, op, args, frame, ret>>

\* The configuration is stored for the first time.
WriterSetConfig ==
    /\ pc = "idle"
    /\ storage.claim_cfg = None
    /\ \E c \in Configs : storage' = [storage EXCEPT !.claim_cfg = Some(c)]
    /\ UNCHANGED <<pc, op, args, frame, ret>>

Writer == WriterSetStatus \/ WriterSetConfig

Next ==
    \/ Call_get_pending_claim
    \/ Enter_get_claims_by_recipient
    \/ Iterate_get_claims_by_recipient
    \/ Enter_get_claims_by_creator
    \/ Iterate_get_claims_by_creator
    \/ Call_get_claim_window_config
    \/ Return
    \/ WriterSetStatus
    \/ WriterSetConfig

Spec == Init /\ [][Next]_vars

----------------------------------------------------------------------------
(* Vocabulary of the properties, stated over the storage and the arguments *)

IsList == op \in {"get_claims_by_recipient", "get_claims_by_creator"}

Finished == pc = "done"

\* The index the running list operation is documented to read.
OwnIndex == IF op = "get_claims_by_recipient" THEN storage.claims_rc ELSE storage.claims_cr

\* The id sequence stored for the owner asked for (empty when absent).
OwnerIds == IF OwnIndex[args.owner] = None THEN <<>> ELSE OwnIndex[args.owner][1]

Resolves(id) == storage.claim[id] # None
StoredClaim(id) == storage.claim[id][1]
Terminal(id) == Resolves(id) /\ StoredClaim(id).status \in {"Claimed", "Cancelled"}

\* An index entry that resolves and passes the status filter of the call.
Eligible(id) ==
    /\ Resolves(id)
    /\ (args.flag = Some(TRUE) \/ StoredClaim(id).status = "Pending")

\* min(max(limit, 1), 100)
E == IF args.limit < 1 THEN 1 ELSE IF args.limit > 100 THEN 100 ELSE args.limit

Min(a, b) == IF a < b THEN a ELSE b

\* Positions of the owner's index holding an eligible entry, and their number M.
EligiblePositions == {p \in 1..Len(OwnerIds) : Eligible(OwnerIds[p])}
M == Cardinality(EligiblePositions)

\* The filtered subsequence of the owner's index, as claims.
FilteredClaims ==
    LET sel == SelectSeq(OwnerIds, Eligible)
    IN  [k \in 1..Len(sel) |-> StoredClaim(sel[k])]

\* The resolvable subsequence of the owner's index, whatever the status.
ResolvableClaims ==
    LET sel == SelectSeq(OwnerIds, Resolves)
    IN  [k \in 1..Len(sel) |-> StoredClaim(sel[k])]

IsPrefix(s, t) == Len(s) <= Len(t) /\ \A k \in 1..Len(s) : s[k] = t[k]

\* Position of the entry producing the E-th result, or the index length when
\* fewer than E entries are eligible.
ExpectedLookups ==
    IF M >= E
    THEN CHOOSE p \in EligiblePositions :
             Cardinality({q \in EligiblePositions : q <= p}) = E
    ELSE Len(OwnerIds)

\* The storage with the dangling ids removed from the owner's index.
WithoutDangling ==
    IF OwnIndex[args.owner] = None THEN storage
    ELSE IF op = "get_claims_by_recipient"
         THEN [storage EXCEPT !.claims_rc[args.owner] = Some(SelectSeq(OwnerIds, Resolves))]
         ELSE [storage EXCEPT !.claims_cr[args.owner] = Some(SelectSeq(OwnerIds, Resolves))]

\* The list operation that is running, as a function of a storage.
SameCallOn(st) ==
    IF op = "get_claims_by_recipient"
    THEN get_claims_by_recipient(st, args.owner, args.limit, args.flag)
    ELSE get_claims_by_creator(st, args.owner, args.limit, args.flag)

----------------------------------------------------------------------------
(* Properties *)

\* C1: get_pending_claim(id) returns Found(c) exactly when a record c is stored
\* under (claim, id), c being the stored record in every field, and NotFound
\* exactly when nothing is stored under id; these are its only outcomes.
C1_LookupExact ==
    (Finished /\ op = "get_pending_claim") =>
        LET id == args.claim_id
        IN  IF id \in DOMAIN storage.claim /\ storage.claim[id] # None
            THEN ret = [tag |-> "Found", claim |-> storage.claim[id][1]]
            ELSE ret = [tag |-> "NotFound"]

\* A stored claim, cancelled by the writer, has been looked up and found.
C1_Witness ==
    /\ Finished /\ op = "get_pending_claim"
    /\ ret.tag = "Found"
    /\ ret.claim.status = "Cancelled"
    /\ ret.claim.id = args.claim_id

\* C2: the result of a list operation has length min(E, M), E being
\* min(max(limit, 1), 100) and M the number of eligible entries of the owner's
\* index (0 without an index entry): limit 0 returns one claim when one is
\* eligible, a limit above 100 returns at most 100.
C2_ResultLength ==
    (Finished /\ IsList) => Len(ret) = Min(E, M)

\* A limit above 100 was passed, more than 100 entries are eligible, and
\* exactly 100 claims came back.
C2_Witness ==
    /\ Finished /\ IsList
    /\ args.limit > 100
    /\ M > 100
    /\ Len(ret) = 100

\* C3: the result of a list operation is a prefix, in stored order, of the
\* filtered subsequence of the owner's index, also when an id occurs in the
\* index more than once.
C3_OrderedPrefix ==
    (Finished /\ IsList) => IsPrefix(ret, FilteredClaims)

\* An index holding id 1 twice around an ineligible entry gave a result with
\* the claim twice.
C3_Witness ==
    /\ Finished /\ IsList
    /\ Len(OwnerIds) >= 3
    /\ OwnerIds[1] = 1 /\ ~Eligible(OwnerIds[2]) /\ OwnerIds[3] = 1
    /\ Len(ret) >= 2
    /\ ret[1] = StoredClaim(1) /\ ret[2] = StoredClaim(1)

\* C4: with the flag omitted or Some(false), every claim in the result of a
\* list operation is Pending, at every step of the scan and at its end.
C4_DefaultOnlyPending ==
    (IsList /\ args.flag \in {None, Some(FALSE)}) =>
        /\ \A k \in 1..Len(frame.result) : frame.result[k].status = "Pending"
        /\ Finished => \A k \in 1..Len(ret) : ret[k].status = "Pending"

\* In the middle of a default scan a Claimed claim was visited and left out,
\* and a Pending one taken.
C4_Witness ==
    /\ IsList /\ pc = "loop"
    /\ args.flag = None
    /\ Len(frame.result) >= 1
    /\ frame.lookups < Len(OwnerIds)
    /\ \E q \in 1..frame.lookups :
          Resolves(OwnerIds[q]) /\ StoredClaim(OwnerIds[q]).status = "Claimed"

\* C5: with the flag Some(true) the result is the first E entries of the index
\* that resolve, whatever their status; without it, a claim the writer has
\* cancelled or claimed is not in the result.
C5_FlagIncludesTerminal ==
    (Finished /\ IsList) =>
        IF args.flag = Some(TRUE)
        THEN ret = SubSeq(ResolvableClaims, 1, Min(E, Len(ResolvableClaims)))
        ELSE \A id \in Ids : Terminal(id) =>
                 \A k \in 1..Len(ret) : ret[k] # StoredClaim(id)

\* A claim the writer cancelled is returned by a Some(true) query, next to a
\* pending one.
C5_Witness ==
    /\ Finished /\ IsList
    /\ args.flag = Some(TRUE)
    /\ \E k \in 1..Len(ret) : ret[k].status = "Cancelled"
    /\ \E k \in 1..Len(ret) : ret[k].status = "Pending"

\* C6: the result of a list operation is the result of the same call on the
\* storage whose index for that owner has its dangling ids removed: dangling
\* entries are skipped and do not consume the limit.
C6_DanglingSkipped ==
    (Finished /\ IsList) => ret = SameCallOn(WithoutDangling)

\* The index starts with a dangling id, more entries follow, and the page was
\* filled to the limit.
C6_Witness ==
    /\ Finished /\ IsList
    /\ Len(OwnerIds) >= 2
    /\ ~Resolves(OwnerIds[1])
    /\ Len(ret) = E

\* C7: get_claim_window_config returns {0, 0} when no configuration is stored
\* and the stored configuration, unchanged, when one is.
C7_ConfigOrDefault ==
    (Finished /\ op = "get_claim_window_config") =>
        IF storage.claim_cfg = None
        THEN ret = [window_duration_secs |-> 0, min_claim_delay_secs |-> 0]
        ELSE ret = storage.claim_cfg[1]

\* A stored configuration whose delay exceeds its duration came back as stored.
C7_Witness ==
    /\ Finished /\ op = "get_claim_window_config"
    /\ storage.claim_cfg # None
    /\ ret.min_claim_delay_secs > ret.window_duration_secs

\* C8: no step of an invocation changes the storage; it changes only in steps
\* of the writer, between invocations.
C8_ReadOnly ==
    [][storage' = storage \/ (pc = "idle" /\ pc' = "idle" /\ Writer)]_vars

\* A list operation has run to its end over a storage the writer had changed.
C8_Witness ==
    /\ Finished /\ IsList
    /\ Len(ret) >= 1
    /\ storage.claim_cfg # None
    /\ \E id \in Ids : Terminal(id)

\* C9: the scan is one forward pass that stops when the result reaches E: the
\* lookups never exceed the entries passed, a full result means the lookups
\* are complete, and a finished call has made as many lookups as the position
\* of the entry that produced the E-th result, or as the index is long when
\* fewer than E entries are eligible.
C9_StopsAtLimit ==
    (IsList /\ pc \in {"loop", "done"}) =>
        /\ Len(frame.result) <= frame.lookups
        /\ frame.lookups <= Len(OwnerIds)
        /\ Len(frame.result) >= E => frame.lookups = ExpectedLookups
        /\ Finished => frame.lookups = ExpectedLookups

\* A call stopped with entries left unvisited, after skipping some entry.
C9_Witness ==
    /\ Finished /\ IsList
    /\ Len(ret) = E
    /\ frame.lookups > E
    /\ frame.lookups < Len(OwnerIds)

\* C10: the two list operations are one algorithm over two indices: where the
\* by-recipient index of A and the by-creator index of B hold the same value,
\* the two calls return the same sequence; and each reads its own index only.
C10_SameAlgorithm ==
    /\ (Finished /\ op = "get_claims_by_recipient") =>
          /\ \A b \in Addrs :
                storage.claims_cr[b] = storage.claims_rc[args.owner] =>
                    ret = get_claims_by_creator(storage, b, args.limit, args.flag)
          /\ ret = get_claims_by_recipient(
                       [storage EXCEPT !.claims_cr = [a \in Addrs |-> None]],
                       args.owner, args.limit, args.flag)
    /\ (Finished /\ op = "get_claims_by_creator") =>
          /\ \A a \in Addrs :
                storage.claims_rc[a] = storage.claims_cr[args.owner] =>
                    ret = get_claims_by_recipient(storage, a, args.limit, args.flag)
          /\ ret = get_claims_by_creator(
                       [storage EXCEPT !.claims_rc = [a \in Addrs |-> None]],
                       args.owner, args.limit, args.flag)

\* The creator's call returned claims from an index that another address's
\* by-recipient entry also holds, while its own by-recipient entry differs.
C10_Witness ==
    /\ Finished /\ op = "get_claims_by_creator"
    /\ Len(ret) >= 2
    /\ \E a \in Addrs : /\ a # args.owner
                        /\ storage.claims_rc[a] = storage.claims_cr[args.owner]
    /\ storage.claims_rc[args.owner] # storage.claims_cr[args.owner]

====
